---- MODULE Spec2Model ----
(***************************************************************************)
(* Model of the test-package generator: the /generate route of app.py and  *)
(* run_generation of generator.py, one request per behaviour, started on   *)
(* an output tree that may still hold the files of an earlier run.         *)
(*                                                                         *)
(* uuid.uuid4() is modelled as a counter: every call returns a value no    *)
(* earlier call of the run returned, and random_id(n), a suffix of it, is  *)
(* taken to be as distinct as the value it is cut from.                    *)
(***************************************************************************)
EXTENDS Integers, Sequences, FiniteSets, TLC

\* Largest count a form field of the explored requests asks for.
MaxCount == 2

----------------------------------------------------------------------------
(* Configuration constants of generator.py and app.py *)

AllProviders == <<"others", "warnerbros">>

ProviderSet == {AllProviders[k] : k \in 1..Len(AllProviders)}

AVAILABLE_PROVIDERS ==
    [p \in ProviderSet |->
        IF p = "others" THEN <<"localnow", "twc", "hbcugo">> ELSE <<"localnow">>]

VIDEO_FILE == "encode-aes2805-2.mp4"

LANDSCAPE_IMAGE == "encode-aes2805-2-16x9.jpg"

PORTRAIT_IMAGE == "encode-aes2805-1-2x3.jpg"

MediaFiles == {VIDEO_FILE, LANDSCAPE_IMAGE, PORTRAIT_IMAGE}

VTypes == <<"Full Movie", "Full Episode", "Short Video">>

RawTypes == <<"full_movie", "full_episode", "short_video">>

\* datetime.today().strftime('%d-%m-%y'): one day, the same for the whole run
DateStr == "05-11-26"

----------------------------------------------------------------------------
(* Field names of the tables *)

FVideoType == "Video Type"
FTitle == "Movie / Episode Title"
FShortDesc == "Movie / Episode Short Description"
FLongDesc == "Movie / Episode Description"
FProgType == "Programming Type"
FVideo == "Movie/Episode Video File Name (including extension)"
FLandscape == "Movie / Episode Landscape Image Name (including extension)"
FPortrait == "Movie Poster Image Name (including extension)"
FPackageId == "package_id"
FProducts == "products"
FSeriesTitle == "Series Title"
FSeriesDesc == "Series Description"
FSeasonNumber == "Season Number"
FSeasonTitle == "Season Title"
FSeasonDesc == "Season Description"
FEpisodeNumber == "Episode Number"
FSeriesPoster == "Series Poster Image Name (including extension)"
FSeriesLandscape == "Series Landscape Image Name (including extension)"
FSeasonLandscape == "Season Landscape Image Name (including extension)"

SeriesFields ==
    {FSeriesTitle, FSeriesDesc, FSeasonNumber, FSeasonTitle, FSeasonDesc,
     FSeriesPoster, FSeriesLandscape, FSeasonLandscape}

SeriesFileFields == {FSeriesPoster, FSeriesLandscape, FSeasonLandscape}

InstanceFileFields == {FVideo, FLandscape, FPortrait}

Range(s) == {s[k] : k \in 1..Len(s)}

\* row[k] = v on a dict: the key is added when the row does not have it
Put(row, k, v) == [x \in DOMAIN row \cup {k} |-> IF x = k THEN v ELSE row[x]]

----------------------------------------------------------------------------
(* Pure functions *)

\* int(s) of Python on the count strings explored: the decimal numerals of
\* the integers, everything else raises ValueError
IsInt(s) == \E n \in -1..(MaxCount + 1) : ToString(n) = s

IntOf(s) == CHOOSE n \in -1..(MaxCount + 1) : ToString(n) = s

\* r["Video Type"].strip().lower() on the labels the source tables hold
StripLower(s) ==
    CASE s \in {"Full Movie", "full movie", " Full Movie "} -> "full movie"
      [] s \in {"Full Episode", "full episode", "full episode "} -> "full episode"
      [] s \in {"Short Video", "short video"} -> "short video"
      [] s \in {"Trailer", " trailer"} -> "trailer"
      [] OTHER -> s

\* vtype.lower().replace(' ', '_')
RawOf(vtype) ==
    CASE vtype = "Full Movie" -> "full_movie"
      [] vtype = "Full Episode" -> "full_episode"
      [] vtype = "Short Video" -> "short_video"

CountKey(raw, provider, product) == raw \o "_" \o provider \o "_" \o product

\* request.form key of app.py
FormKey(provider, product, raw) == provider \o "_" \o product \o "_" \o raw

FormGet(form, key) == IF key \in DOMAIN form THEN form[key] ELSE "0"

----------------------------------------------------------------------------
(* app.py, generate: the manual form turned into manual_configs *)

\* The three counts of one product as generate reads them from the form
FormCount(form, provider, product, raw) ==
    FormGet(form, FormKey(provider, product, raw))

\* int(movie_count) > 0 or int(episode_count) > 0 or int(short_count) > 0
\* raises ValueError at the first count it evaluates that is no integer
ProductCheckRaises(form, provider, product) ==
    LET m == FormCount(form, provider, product, "full_movie")
        e == FormCount(form, provider, product, "full_episode")
        s == FormCount(form, provider, product, "short_video")
    IN  \/ ~IsInt(m)
        \/ /\ IntOf(m) <= 0
           /\ \/ ~IsInt(e)
              \/ IntOf(e) <= 0 /\ ~IsInt(s)

ProductHasCount(form, provider, product) ==
    LET m == FormCount(form, provider, product, "full_movie")
        e == FormCount(form, provider, product, "full_episode")
        s == FormCount(form, provider, product, "short_video")
    IN  \/ IsInt(m) /\ IntOf(m) > 0
        \/ IsInt(e) /\ IntOf(e) > 0
        \/ IsInt(s) /\ IntOf(s) > 0

FormRaises(form) ==
    \E p \in ProviderSet :
        \E q \in Range(AVAILABLE_PROVIDERS[p]) : ProductCheckRaises(form, p, q)

\* Variant: line 83-84 left out, every provider of the form is kept
ProviderHasConfigAlways(form, provider) == TRUE

\* A provider stays in manual_configs only when one of its products has a
\* count above zero

ProviderHasConfig(form, provider) ==
    \E q \in Range(AVAILABLE_PROVIDERS[provider]) :
        ProductHasCount(form, provider, q)

ProductConfig(form, provider, product) ==
    [raw \in {"full_movie", "full_episode"}
             \cup (IF provider = "others" /\ product = "twc"
                   THEN {"short_video"} ELSE {})
        |-> FormCount(form, provider, product, raw)]

ManualConfigs(form) ==
    [p \in {x \in ProviderSet : ProviderHasConfig(form, x)} |->
        [q \in Range(AVAILABLE_PROVIDERS[p]) |-> ProductConfig(form, p, q)]]

\* list(manual_configs.keys()): the providers left, in insertion order
KeysOf(manual_configs) ==
    SelectSeq(AllProviders, LAMBDA p : p \in DOMAIN manual_configs)

----------------------------------------------------------------------------
(* generator.py, run_generation, step 1: the count table *)

DefaultTriples ==
    {<<raw, p, q>> \in
        {"full_movie", "full_episode", "short_video"} \X ProviderSet
            \X {"localnow", "twc", "hbcugo"} :
        /\ q \in Range(AVAILABLE_PROVIDERS[p])
        /\ raw = "short_video" => (p = "others" /\ q = "twc")}

ManualTriples(manual_configs) ==
    {t \in DefaultTriples : t[2] \in DOMAIN manual_configs}

\* product_data.get(vtype_raw, 0)
ProductData(manual_configs, t) ==
    LET pd == manual_configs[t[2]][t[3]]
    IN  IF t[1] \in DOMAIN pd THEN pd[t[1]] ELSE "0"

ConfigRaises(manual_configs) ==
    \E t \in ManualTriples(manual_configs) :
        ~IsInt(ProductData(manual_configs, t))

\* The (type, provider, product) a count key was built from
TripleOfKey(k) ==
    CHOOSE t \in DefaultTriples : CountKey(t[1], t[2], t[3]) = k

KeysOfTriples(T) == {CountKey(t[1], t[2], t[3]) : t \in T}

DefaultConfig == [k \in KeysOfTriples(DefaultTriples) |-> 1]

ManualConfig(manual_configs) ==
    [k \in KeysOfTriples(ManualTriples(manual_configs)) |->
        IntOf(ProductData(manual_configs, TripleOfKey(k)))]

\* config.get(count_key, 0)
ConfigGet(cfg, key) == IF key \in DOMAIN cfg THEN cfg[key] ELSE 0

----------------------------------------------------------------------------
(* generator.py: names, asset copies, rows *)

\* uuid.uuid4().hex[-n:] of the k-th uuid4 call of the run
random_id(k) == ToString(k)

\* generate_common_names(prefix); u is the number of uuid4 calls made before
\* it, and it makes three more
generate_common_names(prefix, u) ==
    LET uid4 == random_id(u + 1)
        uid6 == random_id(u + 2)
        lower == CASE prefix = "Episode" -> "episode"
                   [] prefix = "Movie" -> "movie"
                   [] prefix = "Short" -> "short"
                   [] prefix = "Series" -> "series"
    IN  [title |-> "Test-Mops-" \o prefix \o "-" \o DateStr \o "-" \o uid4,
         short_desc |-> "Description of Test-Mops-" \o prefix \o "-"
                            \o DateStr \o "-" \o uid4,
         long_desc |-> "Short Description of Test-Mops-" \o prefix \o "-"
                            \o DateStr \o "-" \o uid4,
         video |-> "mops-test-" \o lower \o "-" \o uid6 \o ".mp4",
         landscape |-> "mops-test-" \o lower \o "-16x9-" \o uid6 \o ".jpg",
         portrait |-> "mops-test-" \o lower \o "-2x3-" \o uid6 \o ".jpg",
         package_id |-> "uuid-" \o ToString(u + 3)]

\* The SeriesIdentity of lines 175-182: five uuid4 calls
NewSeriesMeta(u) ==
    LET names == generate_common_names("Series", u)
        season_title == "Test-Mops-Season-" \o DateStr \o "-" \o random_id(u + 4)
        series_uid4 == random_id(u + 5)
    IN  [title |-> names.title,
         short_desc |-> names.short_desc,
         long_desc |-> names.long_desc,
         video |-> names.video,
         landscape |-> names.landscape,
         portrait |-> names.portrait,
         package_id |-> names.package_id,
         season_title |-> season_title,
         season_desc |-> "Description of " \o season_title,
         series_poster |-> "test-mops-series-2x3-" \o series_uid4 \o ".jpg",
         series_landscape |-> "test-mops-series-16x9-" \o series_uid4 \o ".jpg",
         season_landscape |-> "test-mops-season-16x9-" \o series_uid4 \o ".jpg"]

MediaContent(src) == [kind |-> "media", src |-> src]

\* Variant: a copy whose source is absent is passed over instead of raising
RECURSIVE CopyAllSkipAbsent(_, _, _, _)
CopyAllSkipAbsent(fs, present, folder, pairs) ==
    IF pairs = <<>> THEN [files |-> fs, ok |-> TRUE, copied |-> {}]
    ELSE IF Head(pairs)[1] \notin present
         THEN CopyAllSkipAbsent(fs, present, folder, Tail(pairs))
         ELSE LET path == <<folder, Head(pairs)[2]>>
                  one == [x \in DOMAIN fs \cup {path} |->
                             IF x = path THEN MediaContent(Head(pairs)[1])
                             ELSE fs[x]]
                  rest == CopyAllSkipAbsent(one, present, folder, Tail(pairs))
              IN  [files |-> rest.files, ok |-> rest.ok,
                   copied |-> rest.copied \cup {path}]

\* A run of shutil.copyfile calls, pairs of <<source media, destination name>>
\* in the folder: each copy writes its file, the first whose source is absent
\* raises FileNotFoundError and the rest are not attempted
RECURSIVE CopyAll(_, _, _, _)
CopyAll(fs, present, folder, pairs) ==
    IF pairs = <<>> THEN [files |-> fs, ok |-> TRUE, copied |-> {}]
    ELSE IF Head(pairs)[1] \notin present
         THEN [files |-> fs, ok |-> FALSE, copied |-> {}]
         ELSE LET path == <<folder, Head(pairs)[2]>>
                  one == [x \in DOMAIN fs \cup {path} |->
                             IF x = path THEN MediaContent(Head(pairs)[1])
                             ELSE fs[x]]
                  rest == CopyAll(one, present, folder, Tail(pairs))
              IN  [files |-> rest.files, ok |-> rest.ok,
                   copied |-> rest.copied \cup {path}]

\* Variant: copy_assets without line 48
copy_assets_no_portrait(fs, present, folder, names) ==
    CopyAll(fs, present, folder,
            << <<VIDEO_FILE, names.video>>,
               <<LANDSCAPE_IMAGE, names.landscape>> >>)

copy_assets(fs, present, folder, names) ==
    CopyAll(fs, present, folder,
            << <<VIDEO_FILE, names.video>>,
               <<LANDSCAPE_IMAGE, names.landscape>>,
               <<PORTRAIT_IMAGE, names.portrait>> >>)

\* Lines 185-187: the three series/season images
copy_series_assets(fs, present, folder, m) ==
    CopyAll(fs, present, folder,
            << <<PORTRAIT_IMAGE, m.series_poster>>,
               <<LANDSCAPE_IMAGE, m.series_landscape>>,
               <<LANDSCAPE_IMAGE, m.season_landscape>> >>)

\* Lines 164-167: the first source row whose label is the requested type,
\* as a sequence of at most one row (None is the empty sequence)
RECURSIVE FirstMatch(_, _)
FirstMatch(rows, vtype) ==
    IF rows = <<>> THEN <<>>
    ELSE IF StripLower(Head(rows)[FVideoType]) = StripLower(vtype)
         THEN <<Head(rows)>>
         ELSE FirstMatch(Tail(rows), vtype)

\* Variant: with no matching row, the first row with its type overridden
TemplateRowFallback(rows, vtype) ==
    IF FirstMatch(rows, vtype) # <<>> THEN FirstMatch(rows, vtype)
    ELSE IF rows = <<>> THEN <<>>
    ELSE << Put(Head(rows), FVideoType, vtype) >>

TemplateRow(rows, vtype) == FirstMatch(rows, vtype)

PrefixOf(vtype) ==
    IF vtype = "Full Episode" THEN "Episode"
    ELSE IF vtype = "Full Movie" THEN "Movie" ELSE "Short"

\* Lines 194-208: the copy of the template with the common fields set
CommonRow(template, names, vtype, product) ==
    LET r1 == Put(template, FTitle, names.title)
        r2 == Put(r1, FShortDesc, names.short_desc)
        r3 == Put(r2, FLongDesc, names.long_desc)
        r4 == Put(r3, FProgType, vtype)
        r5 == Put(r4, FVideo, names.video)
        r6 == Put(r5, FLandscape, names.landscape)
        r7 == Put(r6, FPortrait, names.portrait)
        r8 == IF FPackageId \in DOMAIN r7
              THEN Put(r7, FPackageId, names.package_id) ELSE r7
    IN  IF FProducts \in DOMAIN r8 THEN Put(r8, FProducts, product) ELSE r8

\* Variant: line 213 taking the title of the episode's own names
EpisodeRowOwnTitle(row, m, names, i) ==
    LET r1 == Put(row, FSeriesTitle, names.title)
        r2 == Put(r1, FSeriesDesc, m.short_desc)
        r3 == Put(r2, FSeasonNumber, "1")
        r4 == Put(r3, FSeasonTitle, m.season_title)
        r5 == Put(r4, FSeasonDesc, m.season_desc)
        r6 == Put(r5, FEpisodeNumber, ToString(i + 1))
        r7 == Put(r6, FSeriesPoster, m.series_poster)
        r8 == Put(r7, FSeriesLandscape, m.series_landscape)
    IN  Put(r8, FSeasonLandscape, m.season_landscape)

\* Variant: line 218 writing str(i)
EpisodeRowZeroBased(row, m, names, i) ==
    LET r1 == Put(row, FSeriesTitle, m.title)
        r2 == Put(r1, FSeriesDesc, m.short_desc)
        r3 == Put(r2, FSeasonNumber, "1")
        r4 == Put(r3, FSeasonTitle, m.season_title)
        r5 == Put(r4, FSeasonDesc, m.season_desc)
        r6 == Put(r5, FEpisodeNumber, ToString(i))
        r7 == Put(r6, FSeriesPoster, m.series_poster)
        r8 == Put(r7, FSeriesLandscape, m.series_landscape)
    IN  Put(r8, FSeasonLandscape, m.season_landscape)

\* Lines 212-221: the series and season fields of an episode row, from the
\* shared identity m; i is the loop index of range(count)
EpisodeRow(row, m, names, i) ==
    LET r1 == Put(row, FSeriesTitle, m.title)
        r2 == Put(r1, FSeriesDesc, m.short_desc)
        r3 == Put(r2, FSeasonNumber, "1")
        r4 == Put(r3, FSeasonTitle, m.season_title)
        r5 == Put(r4, FSeasonDesc, m.season_desc)
        r6 == Put(r5, FEpisodeNumber, ToString(i + 1))
        r7 == Put(r6, FSeriesPoster, m.series_poster)
        r8 == Put(r7, FSeriesLandscape, m.series_landscape)
    IN  Put(r8, FSeasonLandscape, m.season_landscape)

\* Variant: line 64 left out
TrimRowNone(row, hdr) == row

\* Line 64: the row cut down to the fields of the header

TrimRow(row, hdr) == [k \in DOMAIN row \cap Range(hdr) |-> row[k]]

\* save_csv, lines 60-65: the header line is fieldnames, then the trimmed rows
CsvContent(rows, hdr) ==
    [kind |-> "csv", header |-> hdr,
     rows |-> [k \in 1..Len(rows) |-> TrimRow(rows[k], hdr)]]

CsvName(provider, u) ==
    "generated-" \o provider \o "-test-package-" \o random_id(u + 1) \o ".csv"

\* Lines 243-247: every file of the output tree, by its path relative to it
\* Variant: only the folders of this run are walked
ZipEntriesOfFolders(fs, active) == {path \in DOMAIN fs : path[1] \in active}

ZipEntries(fs, active) == DOMAIN fs

----------------------------------------------------------------------------
(* The environment: source tables, canonical media, requests *)

FullHeader ==
    <<FVideoType, FTitle, FShortDesc, FLongDesc, FProgType, FVideo, FLandscape,
      FPortrait, FPackageId, FProducts, FSeriesTitle, FSeriesDesc,
      FSeasonNumber, FSeasonTitle, FSeasonDesc, FEpisodeNumber, FSeriesPoster,
      FSeriesLandscape, FSeasonLandscape>>

SparseHeader == <<FVideoType, FTitle>>

\* A row as csv.DictReader yields it: one value per field of the header.
\* Only an episode row of a source table names series and season values.
SrcRow(hdr, label) ==
    [f \in Range(hdr) |->
        IF f = FVideoType THEN label
        ELSE IF f \in SeriesFields \cup {FEpisodeNumber}
             THEN (IF StripLower(label) = "full episode" THEN "src-series" ELSE "")
             ELSE "src"]

MissingTable == [exists |-> FALSE, header |-> <<>>, rows |-> <<>>]

EmptyTable == [exists |-> TRUE, header |-> FullHeader, rows |-> <<>>]

FullTable ==
    [exists |-> TRUE, header |-> FullHeader,
     rows |-> <<SrcRow(FullHeader, " Full Movie "),
                SrcRow(FullHeader, "full episode "),
                SrcRow(FullHeader, "Short Video")>>]

SparseTable ==
    [exists |-> TRUE, header |-> SparseHeader,
     rows |-> <<SrcRow(SparseHeader, "Full Episode"),
                SrcRow(SparseHeader, "Full Movie")>>]

NoEpisodeTable ==
    [exists |-> TRUE, header |-> FullHeader,
     rows |-> <<SrcRow(FullHeader, "Trailer"),
                SrcRow(FullHeader, "Full Movie")>>]

SourceTables ==
    {MissingTable, EmptyTable, FullTable, SparseTable, NoEpisodeTable}

CountStrings == {ToString(n) : n \in -1..MaxCount} \cup {"abc", ""}

FormKeys ==
    {FormKey(p, q, raw) : p \in ProviderSet, q \in {"localnow", "twc", "hbcugo"},
                          raw \in Range(RawTypes)}
        \cap {FormKey(t[2], t[3], raw) : t \in DefaultTriples, raw \in Range(RawTypes)}

EmptyForm == [k \in {} |-> ""]

\* The forms explored: nothing entered, one field entered, or one field
\* entered beside a single movie of others/localnow
CompanionKey == FormKey("others", "localnow", "full_movie")

Forms ==
    {EmptyForm}
    \cup {[k \in {key} |-> v] : key \in FormKeys, v \in CountStrings}
    \cup {[k \in {key, CompanionKey} |-> IF k = key THEN v ELSE "1"] :
             key \in FormKeys \ {CompanionKey}, v \in CountStrings}

Requests ==
    {[method |-> "GET", mode |-> m, form |-> EmptyForm] :
        m \in {"default", "manual", "bogus"}}
    \cup {[method |-> "POST", mode |-> "manual", form |-> f] : f \in Forms}
    \cup {[method |-> "POST", mode |-> "bogus", form |-> EmptyForm]}

\* What an earlier run left in a provider's folder
StaleCsv(p) == <<p, "generated-" \o p \o "-test-package-old.csv">>

StaleVideo(p) == <<p, "mops-test-movie-old.mp4">>

StaleFiles(S) ==
    [path \in {StaleCsv(p) : p \in S} \cup {StaleVideo(p) : p \in S} |->
        IF path[2] = "mops-test-movie-old.mp4" THEN MediaContent(VIDEO_FILE)
        ELSE [kind |-> "csv", header |-> SparseHeader,
              rows |-> <<SrcRow(SparseHeader, "Full Movie")>>]]

----------------------------------------------------------------------------
(* State *)

VARIABLES
    srcTables,      \* provider -> its source table file (SOURCE_CSV_PATHS)
    media,          \* the canonical files present in SOURCE_MEDIA_DIR
    files,          \* OUTPUT_DIR: <<provider folder, file name>> -> content
    folders,        \* the provider folders that exist under OUTPUT_DIR
    zips,           \* archive name -> its entries, in the working directory
    pc,             \* position of the request in generate / run_generation
    request,        \* the request being served
    result,         \* "none", "ok" (results page), "failure", "raised"
    zip_path,       \* zip_path of generate, "" for None
    message,
    providers, provider_products, config,
    all_generated_folders,
    pi,             \* index of the provider of the outer loop
    src_rows, headers, output_rows, series_meta,
    qi, vi,         \* indexes of the product and of the content type
    count, template_row, meta,
    i,              \* loop index of range(count)
    uuid,           \* number of uuid4 calls made so far
    files0,         \* history: the output tree when the request arrived
    written,        \* history: the paths written while serving the request
    output_keys,    \* history: <<product, vtype>> of each row of output_rows
    seriesCreated   \* history: the series keys created, in order

envVars == <<srcTables, media, files0>>

diskVars == <<files, folders, zips, written>>

runVars == <<providers, provider_products, config, all_generated_folders, pi>>

provVars == <<src_rows, headers, output_rows, output_keys, series_meta, seriesCreated>>

keyVars == <<qi, vi, count, template_row, meta, i>>

outVars == <<request, result, zip_path, message>>

vars == <<envVars, diskVars, runVars, provVars, keyVars, outVars, pc, uuid>>

Init ==
    /\ srcTables \in [ProviderSet -> SourceTables]
    /\ media = MediaFiles
    /\ \E S \in SUBSET ProviderSet :
        /\ files = StaleFiles(S)
        /\ folders = S
    /\ files0 = files
    /\ zips = [z \in {} |-> {}]
    /\ pc = "idle"
    /\ request = [method |-> "GET", mode |-> "", form |-> EmptyForm]
    /\ result = "none"
    /\ zip_path = ""
    /\ message = ""
    /\ providers = <<>>
    /\ provider_products = [p \in {} |-> <<>>]
    /\ config = [k \in {} |-> 0]
    /\ all_generated_folders = <<>>
    /\ pi = 1
    /\ src_rows = <<>>
    /\ headers = <<>>
    /\ output_rows = <<>>
    /\ output_keys = <<>>
    /\ series_meta = [k \in {} |-> 0]
    /\ seriesCreated = <<>>
    /\ qi = 1
    /\ vi = 1
    /\ count = 0
    /\ template_row = <<>>
    /\ meta = <<>>
    /\ i = 0
    /\ uuid = 0
    /\ written = {}

----------------------------------------------------------------------------
(* generator.py, run_generation, lines 84-127: what the call starts with *)

\* list(manual_configs[p].keys()): the products in the order of the form
ProductsOf(manual_configs, p) ==
    SelectSeq(AVAILABLE_PROVIDERS[p], LAMBDA q : q \in DOMAIN manual_configs[p])

RunSetup(mode, manual_configs) ==
    IF mode = "default"
    THEN [status |-> "run", message |-> "",
          providers |-> AllProviders,
          provider_products |-> AVAILABLE_PROVIDERS,
          config |-> DefaultConfig]
    ELSE IF mode = "manual" /\ DOMAIN manual_configs = {}
    THEN [status |-> "failure",
          message |-> "Manual configuration data is missing.",
          providers |-> <<>>, provider_products |-> [p \in {} |-> <<>>],
          config |-> [k \in {} |-> 0]]
    ELSE IF mode = "manual" /\ ConfigRaises(manual_configs)
    THEN [status |-> "raised", message |-> "ValueError",
          providers |-> <<>>, provider_products |-> [p \in {} |-> <<>>],
          config |-> [k \in {} |-> 0]]
    ELSE IF mode = "manual"
    THEN [status |-> "run", message |-> "",
          providers |-> KeysOf(manual_configs),
          provider_products |->
              [p \in DOMAIN manual_configs |-> ProductsOf(manual_configs, p)],
          config |-> ManualConfig(manual_configs)]
    ELSE [status |-> "failure",
          message |-> "Invalid generation mode specified.",
          providers |-> <<>>, provider_products |-> [p \in {} |-> <<>>],
          config |-> [k \in {} |-> 0]]

\* app.py, generate, lines 43-91: what the route does before the generation
\* loop: it answers at once (a redirect with a flashed message, or an uncaught
\* exception) or calls run_generation
Dispatch(req) ==
    LET none == [status |-> "failure", message |-> "",
                 providers |-> <<>>, provider_products |-> [p \in {} |-> <<>>],
                 config |-> [k \in {} |-> 0]]
    IN  IF req.method = "GET"
        THEN IF req.mode = "default"
             THEN RunSetup("default", EmptyForm)
             ELSE [none EXCEPT !.message = "Generation mode not specified."]
        ELSE IF req.mode # "manual"
        THEN [none EXCEPT !.status = "raised", !.message = "UnboundLocalError"]
        ELSE IF FormRaises(req.form)
        THEN [none EXCEPT !.status = "raised", !.message = "ValueError"]
        ELSE IF DOMAIN ManualConfigs(req.form) = {}
        THEN [none EXCEPT !.message =
                 "Please enter at least one content count in Manual Mode."]
        ELSE RunSetup("manual", ManualConfigs(req.form))

----------------------------------------------------------------------------
(* Actions *)

provider == providers[pi]

product == provider_products[provider][qi]

vtype == VTypes[vi]

\* The request arrives: generate of app.py up to the call of run_generation,
\* and run_generation up to its generation loop
Generate(req) ==
    /\ pc = "idle"
    /\ request' = req
    /\ LET d == Dispatch(req)
       IN  /\ providers' = d.providers
           /\ provider_products' = d.provider_products
           /\ config' = d.config
           /\ message' = d.message
           /\ result' = IF d.status = "run" THEN "none" ELSE d.status
           /\ pc' = IF d.status # "run" THEN "done"
                    ELSE IF d.providers = <<>> THEN "zip" ELSE "provider"
    /\ all_generated_folders' = <<>>
    /\ pi' = 1
    /\ UNCHANGED <<envVars, diskVars, provVars, keyVars, zip_path, uuid>>

\* Lines 132-150: the next provider of the loop, its source table loaded
LoadProvider ==
    /\ pc = "provider"
    /\ LET t == srcTables[provider]
       IN  IF ~t.exists \/ t.rows = <<>>
           THEN /\ pi' = pi + 1
                /\ pc' = IF pi + 1 > Len(providers) THEN "zip" ELSE "provider"
                /\ UNCHANGED <<folders, all_generated_folders, provVars, qi, vi>>
           ELSE /\ src_rows' = t.rows
                /\ headers' = t.header
                /\ output_rows' = <<>>
                /\ output_keys' = <<>>
                /\ folders' = folders \cup {provider}
                /\ all_generated_folders' = Append(all_generated_folders, provider)
                /\ series_meta' = [k \in {} |-> 0]
                /\ qi' = 1
                /\ vi' = 1
                /\ pc' = "key"
                /\ UNCHANGED <<pi, seriesCreated>>
    /\ UNCHANGED <<envVars, files, zips, written, providers, provider_products,
                   config, count, template_row, meta, i, outVars, uuid>>

\* The position after the current (product, content type) of lines 152-153
NextKeyPc ==
    IF vi < Len(VTypes) \/ qi < Len(provider_products[provider])
    THEN "key" ELSE "save"

NextQi == IF vi < Len(VTypes) THEN qi ELSE qi + 1

NextVi == IF vi < Len(VTypes) THEN vi + 1 ELSE 1

SeriesKey == provider \o "_" \o product

\* config.get(count_key, 0) of the provider at hand, line 159
CountFor(q, vt) == ConfigGet(config, CountKey(RawOf(vt), provider, q))

\* The three "continue" of lines 155-170
KeySkip ==
    \/ vtype = "Short Video" /\ (provider # "others" \/ product # "twc")
    \/ CountFor(product, vtype) = 0
    \/ TemplateRow(src_rows, vtype) = <<>>

\* Line 174: the product has no series identity yet
KeyCreate == vtype = "Full Episode" /\ SeriesKey \notin DOMAIN series_meta

\* Lines 153-191: one (product, content type): its count, its template row
\* and, for episodes, the series identity of the product
KeyStep ==
    /\ pc = "key"
    /\ LET m == NewSeriesMeta(uuid)
           cp == copy_series_assets(files, media, provider, m)
       IN  IF KeySkip
           THEN /\ qi' = NextQi
                /\ vi' = NextVi
                /\ pc' = NextKeyPc
                /\ UNCHANGED <<files, written, series_meta, seriesCreated, count,
                               template_row, meta, i, uuid, result, message>>
           ELSE /\ count' = CountFor(product, vtype)
                /\ template_row' = TemplateRow(src_rows, vtype)
                /\ IF KeyCreate
                   THEN /\ series_meta' =
                              [k \in DOMAIN series_meta \cup {SeriesKey} |->
                                  IF k = SeriesKey THEN m ELSE series_meta[k]]
                        /\ seriesCreated' = Append(seriesCreated, SeriesKey)
                        /\ uuid' = uuid + 5
                        /\ files' = cp.files
                        /\ written' = written \cup cp.copied
                   ELSE UNCHANGED <<series_meta, seriesCreated, uuid, files, written>>
                /\ meta' = IF vtype = "Full Episode"
                           THEN <<series_meta'[SeriesKey]>> ELSE <<>>
                /\ IF KeyCreate /\ ~cp.ok
                   THEN /\ pc' = "done"
                        /\ result' = "raised"
                        /\ message' = "FileNotFoundError"
                        /\ UNCHANGED <<qi, vi, i>>
                   ELSE IF CountFor(product, vtype) > 0
                   THEN /\ pc' = "instance"
                        /\ i' = 0
                        /\ UNCHANGED <<qi, vi, result, message>>
                   ELSE /\ qi' = NextQi
                        /\ vi' = NextVi
                        /\ pc' = NextKeyPc
                        /\ UNCHANGED <<i, result, message>>
    /\ UNCHANGED <<envVars, folders, zips, runVars, src_rows, headers,
                   output_rows, output_keys, request, zip_path>>

\* Lines 193-223: one pass of the loop over range(count)
InstanceStep ==
    /\ pc = "instance"
    /\ LET names == generate_common_names(PrefixOf(vtype), uuid)
           row == CommonRow(template_row[1], names, vtype, product)
           cp == copy_assets(files, media, provider, names)
           full == IF vtype = "Full Episode"
                   THEN EpisodeRow(row, meta[1], names, i) ELSE row
       IN  /\ uuid' = uuid + 3
           /\ files' = cp.files
           /\ written' = written \cup cp.copied
           /\ IF ~cp.ok
              THEN /\ pc' = "done"
                   /\ result' = "raised"
                   /\ message' = "FileNotFoundError"
                   /\ UNCHANGED <<output_rows, output_keys, i, qi, vi>>
              ELSE /\ output_rows' = Append(output_rows, full)
                   /\ output_keys' = Append(output_keys, <<product, vtype>>)
                   /\ i' = i + 1
                   /\ IF i + 1 < count
                      THEN /\ pc' = "instance"
                           /\ UNCHANGED <<qi, vi>>
                      ELSE /\ qi' = NextQi
                           /\ vi' = NextVi
                           /\ pc' = NextKeyPc
                   /\ UNCHANGED <<result, message>>
    /\ UNCHANGED <<envVars, folders, zips, runVars, src_rows, headers,
                   series_meta, seriesCreated, count, template_row, meta,
                   request, zip_path>>

\* Lines 226-228 and save_csv: the provider's table written, if it has rows
SaveProvider ==
    /\ pc = "save"
    /\ IF output_rows # <<>>
       THEN LET path == <<provider, CsvName(provider, uuid)>>
            IN  /\ files' = [x \in DOMAIN files \cup {path} |->
                                IF x = path THEN CsvContent(output_rows, headers)
                                ELSE files[x]]
                /\ written' = written \cup {path}
                /\ uuid' = uuid + 1
       ELSE UNCHANGED <<files, written, uuid>>
    /\ pi' = pi + 1
    /\ pc' = IF pi + 1 > Len(providers) THEN "zip" ELSE "provider"
    /\ UNCHANGED <<envVars, folders, zips, providers, provider_products, config,
                   all_generated_folders, provVars, keyVars, outVars>>

\* Line 233: the folders of this run that exist and hold something
ActiveFolders ==
    {f \in Range(all_generated_folders) :
        f \in folders /\ \E path \in DOMAIN files : path[1] = f}

\* Lines 233-252, and generate's answer, lines 93-105
Zip ==
    /\ pc = "zip"
    /\ IF ActiveFolders = {}
       THEN /\ result' = "failure"
            /\ message' = "No files were generated based on the configuration. Check counts."
            /\ UNCHANGED <<zips, zip_path, uuid>>
       ELSE LET name == "mops-test-package-export-" \o random_id(uuid + 1) \o ".zip"
            IN  /\ zips' = [z \in DOMAIN zips \cup {name} |->
                               IF z = name THEN ZipEntries(files, ActiveFolders)
                               ELSE zips[z]]
                /\ zip_path' = name
                /\ uuid' = uuid + 1
                /\ result' = "ok"
                /\ message' = "Generation and Zipping complete."
    /\ pc' = "done"
    /\ UNCHANGED <<envVars, files, folders, written, runVars, provVars, keyVars,
                   request>>

\* The environment: one of the canonical media files goes missing, before
\* the request or at any point of the run
RemoveMedia(f) ==
    /\ pc # "done"
    /\ media = MediaFiles
    /\ media' = media \ {f}
    /\ UNCHANGED <<srcTables, files0, diskVars, runVars, provVars, keyVars,
                   outVars, pc, uuid>>

Next ==
    \/ \E req \in Requests : Generate(req)
    \/ \E f \in MediaFiles : RemoveMedia(f)
    \/ LoadProvider
    \/ KeyStep
    \/ InstanceStep
    \/ SaveProvider
    \/ Zip

Spec == Init /\ [][Next]_vars

----------------------------------------------------------------------------
(* Properties *)

\* The folder the rows of output_rows belong to
OutputFolder == all_generated_folders[Len(all_generated_folders)]

InRun == pc \in {"key", "instance", "save"}

IsEpisode(k) == output_keys[k][2] = "Full Episode"

\* The folders that existed when the request arrived
folders0 == {path[1] : path \in DOMAIN files0}

NoArchive == zip_path = "" /\ DOMAIN zips = {}

\* The tables written while serving the request
WrittenTables == {path \in written : files[path].kind = "csv"}

ManualRequest == request.method = "POST" /\ request.mode = "manual"

\* C1: the episode rows of one (provider, product) key carry the same series
\* and season title, description, number and image names, which are those of
\* the key's one series identity; no key has its identity created (and its
\* assets copied) twice in a run.
C1_SharedSeriesIdentity ==
    /\ \A a, b \in 1..Len(output_rows) :
          (IsEpisode(a) /\ output_keys[a] = output_keys[b]) =>
              \A f \in SeriesFields : output_rows[a][f] = output_rows[b][f]
    /\ \A a \in 1..Len(output_rows) :
          IsEpisode(a) =>
              LET m == series_meta[OutputFolder \o "_" \o output_keys[a][1]]
              IN  /\ output_rows[a][FSeriesTitle] = m.title
                  /\ output_rows[a][FSeriesDesc] = m.short_desc
                  /\ output_rows[a][FSeasonTitle] = m.season_title
                  /\ output_rows[a][FSeasonDesc] = m.season_desc
                  /\ output_rows[a][FSeasonNumber] = "1"
                  /\ output_rows[a][FSeriesPoster] = m.series_poster
                  /\ output_rows[a][FSeriesLandscape] = m.series_landscape
                  /\ output_rows[a][FSeasonLandscape] = m.season_landscape
    /\ \A a, b \in 1..Len(seriesCreated) :
          seriesCreated[a] = seriesCreated[b] => a = b

C1_Witness ==
    \E a, b \in 1..Len(output_rows) :
        /\ a # b
        /\ IsEpisode(a)
        /\ output_keys[a] = output_keys[b]
        /\ output_rows[a][FTitle] # output_rows[b][FTitle]

\* The file names a row refers to: the values of its file fields that are
\* not blank
ReferencedFiles(row) ==
    {row[f] : f \in {g \in (InstanceFileFields \cup SeriesFileFields)
                            \cap DOMAIN row : row[g] # ""}}

\* C2: every file a generated record names exists in its provider's output
\* folder: at every point of the run for the records appended so far, and
\* after generation for the records of every table written.
C2_ReferencedFilesExist ==
    /\ \A k \in 1..Len(output_rows) :
          \A name \in ReferencedFiles(output_rows[k]) :
              <<OutputFolder, name>> \in DOMAIN files
    /\ \A path \in WrittenTables :
          \A k \in 1..Len(files[path].rows) :
              \A name \in ReferencedFiles(files[path].rows[k]) :
                  <<path[1], name>> \in DOMAIN files

C2_Witness ==
    /\ result = "ok"
    /\ \E path \in WrittenTables :
          \E k \in 1..Len(files[path].rows) :
              /\ FSeriesPoster \in DOMAIN files[path].rows[k]
              /\ files[path].rows[k][FSeriesPoster] # ""
              /\ Cardinality(ReferencedFiles(files[path].rows[k])) = 6

AllCountsZero == \A k \in FormKeys : FormGet(request.form, k) = "0"

\* C3: a manual request whose counts are all zero ends in a failure answer
\* with no archive, and leaves the output tree as it found it.
C3_AllZeroFails ==
    (pc # "idle" /\ ManualRequest /\ AllCountsZero) =>
        /\ pc = "done"
        /\ result = "failure"
        /\ NoArchive
        /\ files = files0
        /\ folders = folders0
        /\ written = {}

C3_Witness ==
    /\ pc = "done"
    /\ ManualRequest
    /\ AllCountsZero
    /\ DOMAIN request.form # {}
    /\ DOMAIN files0 # {}
    /\ result = "failure"

\* Scenario D for the pair (pm, po): the run is over, pm's source table is
\* missing, po's is present and holds a template row for a content type
\* requested with a count above zero, and the canonical media are in place
ScenarioD(pm, po) ==
    /\ pc = "done"
    /\ pm # po
    /\ ~srcTables[pm].exists
    /\ srcTables[po].exists
    /\ media = MediaFiles
    /\ po \in Range(providers)
    /\ \E q \in Range(provider_products[po]) :
          \E k \in 1..Len(VTypes) :
              /\ VTypes[k] = "Short Video" => (po = "others" /\ q = "twc")
              /\ ConfigGet(config, CountKey(RawTypes[k], po, q)) > 0
              /\ TemplateRow(srcTables[po].rows, VTypes[k]) # <<>>

ArchiveEntries == zips[zip_path]

\* C4 as stated: in scenario D generate succeeds, nothing is written for the
\* missing provider, and the archive has entries of the other provider only,
\* whatever an earlier run left in the output tree.
C4_ArchiveOnlyOtherProvider ==
    \A pm, po \in ProviderSet :
        ScenarioD(pm, po) =>
            /\ result = "ok"
            /\ zip_path \in DOMAIN zips
            /\ \A path \in written : path[1] # pm
            /\ \A e \in ArchiveEntries : e[1] = po

\* C4, amended: in scenario D generate succeeds, nothing is written for the
\* missing provider, and the archive's entries under the missing provider's
\* folder are exactly the files an earlier run left there (none when it left
\* none); every other entry is a file of the other provider's folder.
C4_ArchiveHoldsEarlierFiles ==
    \A pm, po \in ProviderSet :
        ScenarioD(pm, po) =>
            /\ result = "ok"
            /\ zip_path \in DOMAIN zips
            /\ \A path \in written : path[1] # pm
            /\ {e \in ArchiveEntries : e[1] = pm}
                  = {path \in DOMAIN files0 : path[1] = pm}
            /\ \A e \in ArchiveEntries : e[1] \in {pm, po}
            /\ \E e \in ArchiveEntries : e[1] = po /\ e \in written

C4_Witness ==
    \E pm, po \in ProviderSet :
        /\ ScenarioD(pm, po)
        /\ pm \in Range(providers)
        /\ StaleCsv(pm) \in ArchiveEntries
        /\ \E e \in ArchiveEntries : e[1] = po /\ e \in written

\* The providers whose every count of the form is zero
ZeroProvider(p) ==
    \A q \in Range(AVAILABLE_PROVIDERS[p]) :
        \A raw \in Range(RawTypes) : FormCount(request.form, p, q, raw) = "0"

\* C5: in manual mode a provider whose counts are all zero is not in the
\* resolved table and the generation loop never reaches it: no count entry,
\* not among the providers of the run, no folder made, nothing written.
C5_ZeroProviderAbsent ==
    (pc # "idle" /\ ManualRequest) =>
        \A p \in ProviderSet :
            ZeroProvider(p) =>
                /\ p \notin Range(providers)
                /\ p \notin DOMAIN provider_products
                /\ \A k \in DOMAIN config : TripleOfKey(k)[2] # p
                /\ p \notin Range(all_generated_folders)
                /\ p \in folders <=> p \in folders0
                /\ \A path \in written : path[1] # p

C5_Witness ==
    /\ pc = "done"
    /\ ManualRequest
    /\ result = "ok"
    /\ ZeroProvider("warnerbros")
    /\ srcTables["warnerbros"].exists
    /\ srcTables["warnerbros"].rows # <<>>
    /\ "warnerbros" \notin folders
    /\ \E path \in written : path[1] = "others"

\* The request is one of the configuration errors: a mode that is neither
\* default nor manual, manual mode with nothing entered, or a count that is
\* no non-negative integer
ConfigErrorRequest ==
    \/ request.mode \notin {"default", "manual"}
    \/ ManualRequest /\ DOMAIN request.form = {}
    \/ /\ ManualRequest
       /\ \E k \in DOMAIN request.form :
             ~IsInt(request.form[k]) \/ IntOf(request.form[k]) < 0

\* C6: every configuration error makes generate answer with a failure
\* result, not an exception, and nothing is created or changed.
C6_ConfigErrorsFail ==
    (pc # "idle" /\ ConfigErrorRequest) =>
        /\ pc = "done"
        /\ result = "failure"
        /\ message # ""
        /\ NoArchive
        /\ files = files0
        /\ folders = folders0

\* The indexes of the rows of output_rows generated for (q, vt), in order
RowsOf(q, vt) ==
    SelectSeq([k \in 1..Len(output_rows) |-> k],
              LAMBDA k : output_keys[k] = <<q, vt>>)

\* C7: the Episode Number values of a key's episode rows count 1, 2, ... in
\* generation order at every point of the run, and when the provider's loop
\* is over they are exactly 1..count for every product with an episode count
\* above zero and an episode template.
C7_EpisodeNumbers ==
    InRun =>
        \A q \in Range(provider_products[provider]) :
            LET idx == RowsOf(q, "Full Episode")
            IN  /\ \A n \in 1..Len(idx) :
                      output_rows[idx[n]][FEpisodeNumber] = ToString(n)
                /\ (/\ pc = "save"
                    /\ CountFor(q, "Full Episode") > 0
                    /\ TemplateRow(src_rows, "Full Episode") # <<>>)
                      => Len(idx) = CountFor(q, "Full Episode")

C7_Witness ==
    /\ pc = "save"
    /\ \E q \in Range(provider_products[provider]) :
          /\ CountFor(q, "Full Episode") = 2
          /\ Len(RowsOf(q, "Full Episode")) = 2
          /\ Len(output_rows) > 2

\* C8: the header of every table written is the field list of the provider's
\* source table, in its order, and every written row has exactly the fields
\* of that header: the fields a record gained beyond the source schema are
\* dropped and no source column is missing.
C8_HeaderEqualsSource ==
    \A path \in WrittenTables :
        /\ files[path].header = srcTables[path[1]].header
        /\ \A k \in 1..Len(files[path].rows) :
              DOMAIN files[path].rows[k] = Range(srcTables[path[1]].header)

C8_Witness ==
    /\ pc \in {"provider", "zip"}
    /\ \E path \in WrittenTables :
          /\ path[1] = OutputFolder
          /\ files[path].header = SparseHeader
          /\ Len(files[path].rows) = Len(output_rows)
          /\ \E k \in 1..Len(output_rows) :
                /\ IsEpisode(k)
                /\ FSeriesTitle \in DOMAIN output_rows[k]
                /\ FSeriesTitle \notin DOMAIN files[path].rows[k]

\* A copy is about to be attempted whose canonical source file is absent:
\* the three asset copies of an instance, or the three image copies of a
\* series identity about to be created
CopyOfAbsentMedia ==
    \/ pc = "instance" /\ media # MediaFiles
    \/ /\ pc = "key"
       /\ ~KeySkip
       /\ KeyCreate
       /\ ~({PORTRAIT_IMAGE, LANDSCAPE_IMAGE} \subseteq media)

Aborted == pc = "done" /\ result = "raised" /\ message = "FileNotFoundError"

\* Every file of the tree fs is in the tree gs with the same content
Kept(fs, gs) ==
    \A path \in DOMAIN fs : path \in DOMAIN gs /\ gs[path] = fs[path]

\* C9: a copy attempted while its canonical source file is absent ends the
\* run at once with the error propagating: no record is appended, no table is
\* written for the provider at hand, no archive is made, the loops do not
\* advance, and every file on disk before the attempt is still there,
\* unchanged; once aborted the run has no archive and the earlier providers'
\* tables and the files of the earlier run are on disk.
C9_Abort ==
    /\ [](Aborted =>
            /\ NoArchive
            /\ Kept(files0, files)
            /\ written \subseteq DOMAIN files
            /\ \A path \in WrittenTables : path[1] # providers[pi]
            /\ ~ENABLED Next)
    /\ [][CopyOfAbsentMedia =>
            /\ Aborted'
            /\ output_rows' = output_rows
            /\ pi' = pi /\ qi' = qi /\ vi' = vi /\ i' = i
            /\ zips' = zips
            /\ Kept(files, files')
            /\ \A path \in DOMAIN files' \ DOMAIN files :
                  files'[path].kind = "media"]_vars
    /\ [][Kept(files, files')]_vars

C9_Witness ==
    /\ Aborted
    /\ pi = 2
    /\ \E path \in WrittenTables : path[1] = providers[1]
    /\ \E path \in written : path[1] = providers[2]
    /\ DOMAIN files0 # {}

NoTemplate(vt) == src_rows # <<>> /\ FirstMatch(src_rows, vt) = <<>>

Requested(q, vt) ==
    /\ vt = "Short Video" => (provider = "others" /\ q = "twc")
    /\ CountFor(q, vt) > 0

\* C10 as stated: a content type requested with a count above zero for which
\* the non-empty source table has no row still gets exactly count records,
\* made from the first row of the table.
C10_FallbackGenerates ==
    (pc = "save") =>
        \A q \in Range(provider_products[provider]) :
            \A vt \in Range(VTypes) :
                (Requested(q, vt) /\ NoTemplate(vt)) =>
                    Len(RowsOf(q, vt)) = CountFor(q, vt)

\* C10, amended: a content type requested with a count above zero for which
\* the non-empty source table has no row gets no record at all: there is no
\* fallback to the first row; the key is passed over without touching the
\* disk or the records and the run goes on with the next content type or
\* product (it does not abort).
C10_NoTemplateSkips ==
    /\ [](InRun =>
            \A q \in Range(provider_products[provider]) :
                \A vt \in Range(VTypes) :
                    (Requested(q, vt) /\ NoTemplate(vt)) =>
                        Len(RowsOf(q, vt)) = 0)
    /\ [][(/\ pc = "key" /\ Requested(product, vtype) /\ NoTemplate(vtype)
           /\ media' = media) =>
            /\ pc' \in {"key", "save"}
            /\ <<qi', vi'>> # <<qi, vi>>
            /\ result' = "none"
            /\ UNCHANGED <<output_rows, files, series_meta, seriesCreated, uuid>>]_vars

C10_Witness ==
    /\ pc = "save"
    /\ output_rows # <<>>
    /\ \E q \in Range(provider_products[provider]) :
          /\ Requested(q, "Full Episode")
          /\ NoTemplate("Full Episode")
          /\ Len(RowsOf(q, "Full Movie")) > 0

\* C11: when the loops of a provider are over, a product has a series
\* identity (created, its three images copied) exactly when at least one
\* episode record was generated for it in the run, whatever integer counts
\* the configuration step let through.
C11_IdentityIffEpisodes ==
    (pc = "save") =>
        \A q \in Range(provider_products[provider]) :
            (provider \o "_" \o q) \in DOMAIN series_meta
                <=> Len(RowsOf(q, "Full Episode")) > 0

====
